---- MODULE Spec2Model ----
(***************************************************************************)
(* Model of the PubMed paper pipeline: src/src/fetch_papers.py and the     *)
(* command of src/src/cli.py.                                              *)
(*                                                                         *)
(* Python strings are sequences of one-character strings, so that the      *)
(* substring tests, lower(), the f-string and ", ".join are computed on    *)
(* the characters.  The remote service is the environment: it answers a    *)
(* pending request with any response of a finite sample, or never.         *)
(***************************************************************************)
EXTENDS Integers, Sequences, FiniteSets, TLC

\* ------------------------------------------------------------ bounds
\* longest identifier list the service answers with
MaxIds == 2
\* largest max_results the command is started with
MaxResults == 2
\* longest author list handed to the classification step on its own
MaxAuthors == 2

\* ------------------------------------------------------------ Python values
\* Python's None where a string was expected (element.text of an element
\* without text); no character sequence equals it
PyNone == <<"<None>">>
\* what find() gives when the element is not in the tree
Absent == <<"<absent>">>

LowerAlphabet ==
  <<"a","b","c","d","e","f","g","h","i","j","k","l","m","n","o","p","q","r","s","t","u","v","w","x","y","z">>
UpperAlphabet ==
  <<"A","B","C","D","E","F","G","H","I","J","K","L","M","N","O","P","Q","R","S","T","U","V","W","X","Y","Z">>

\* str.lower() of one character
lower_char(c) ==
  IF \E i \in 1..Len(UpperAlphabet) : UpperAlphabet[i] = c
  THEN LowerAlphabet[CHOOSE i \in 1..Len(UpperAlphabet) : UpperAlphabet[i] = c]
  ELSE c

\* str.lower()
lower(s) == [i \in 1..Len(s) |-> lower_char(s[i])]

\* Python's `sub in s` on strings: scan the start positions left to right
RECURSIVE str_find(_, _, _)
str_find(s, sub, i) ==
  IF i + Len(sub) - 1 > Len(s) THEN FALSE
  ELSE IF SubSeq(s, i, i + Len(sub) - 1) = sub THEN TRUE
  ELSE str_find(s, sub, i + 1)

str_contains(s, sub) == str_find(s, sub, 1)

\* any(keyword in s for keyword in keywords): the keywords in list order
RECURSIVE any_keyword_in(_, _)
any_keyword_in(keywords, s) ==
  IF keywords = <<>> THEN FALSE
  ELSE IF str_contains(s, Head(keywords)) THEN TRUE
  ELSE any_keyword_in(Tail(keywords), s)

\* str(x) inside an f-string: None prints as "None"
format_value(x) == IF x = PyNone THEN <<"N","o","n","e">> ELSE x

\* sep.join(parts)
RECURSIVE str_join(_, _)
str_join(sep, parts) ==
  IF parts = <<>> THEN <<>>
  ELSE IF Len(parts) = 1 THEN parts[1]
  ELSE parts[1] \o sep \o str_join(sep, Tail(parts))

\* ------------------------------------------------------------ constants of the code
ACADEMIC_KEYWORDS ==
  << <<"u","n","i","v","e","r","s","i","t","y">>,
     <<"c","o","l","l","e","g","e">>,
     <<"i","n","s","t","i","t","u","t","e">>,
     <<"h","o","s","p","i","t","a","l">>,
     <<"s","c","h","o","o","l">>,
     <<"r","e","s","e","a","r","c","h"," ","c","e","n","t","e","r">> >>

COMPANY_KEYWORDS ==
  << <<"P","h","a","r","m","a">>,
     <<"B","i","o","t","e","c","h">>,
     <<"T","h","e","r","a","p","e","u","t","i","c","s">>,
     <<"I","n","c">>,
     <<"L","t","d">>,
     <<"C","o","r","p","o","r","a","t","i","o","n">>,
     <<"G","m","b","H">> >>

HTTP_OK == 200

NA == <<"N","/","A">>
UnknownDate == <<"U","n","k","n","o","w","n"," ","D","a","t","e">>
UnknownAuthor == <<"U","n","k","n","o","w","n"," ","A","u","t","h","o","r">>
NotAvailable == <<"N","o","t"," ","A","v","a","i","l","a","b","l","e">>
CommaSpace == <<","," ">>
Space == <<" ">>

REPORT_COLUMNS ==
  <<"PubmedID", "Title", "Publication Date", "Non-academic Author(s)",
    "Company Affiliation(s)", "Corresponding Author Email">>

\* ------------------------------------------------------------ classification
is_academic_affiliation(affiliation) ==
  any_keyword_in(ACADEMIC_KEYWORDS, lower(affiliation))

\* the variant that lets an academic match win over a commercial one
is_non_academic_affiliation_academic_first(affiliation) ==
  /\ any_keyword_in(COMPANY_KEYWORDS, affiliation)
  /\ ~ is_academic_affiliation(affiliation)

is_non_academic_affiliation(affiliation) ==
  any_keyword_in(COMPANY_KEYWORDS, affiliation)

\* outcomes of a call: a returned value or a raised exception
Returned(v) == [kind |-> "return", exc |-> "none", value |-> v]
Raised(e) == [kind |-> "raise", exc |-> e, value |-> <<>>]

\* `keyword in affiliation` raises TypeError when affiliation is None;
\* otherwise the authors that pass the test, in order
RECURSIVE select_non_academic(_)
select_non_academic(authors) ==
  IF authors = <<>> THEN <<>>
  ELSE IF is_non_academic_affiliation(Head(authors).affiliation)
       THEN <<Head(authors)>> \o select_non_academic(Tail(authors))
       ELSE select_non_academic(Tail(authors))

identify_non_academic_authors(authors) ==
  IF \E i \in 1..Len(authors) : authors[i].affiliation = PyNone
  THEN Raised("TypeError")
  ELSE Returned(select_non_academic(authors))

\* ------------------------------------------------------------ detail parsing
\* fetch_paper_details on one response of the detail endpoint.  A response
\* is [kind, exc, status, wellformed, doc]: exc is the exception requests.get
\* raises ("none" when it returns), wellformed says whether the body parses
\* as XML, doc holds for each looked-up element Absent, PyNone (no text) or
\* its text.
parse_author(author) ==
  [name |->
     IF author.LastName # Absent /\ author.ForeName # Absent
     THEN format_value(author.ForeName) \o Space \o format_value(author.LastName)
     ELSE UnknownAuthor,
   affiliation |->
     IF author.Affiliation # Absent THEN author.Affiliation ELSE NA]

parse_document(doc) ==
  [title |-> IF doc.ArticleTitle # Absent THEN doc.ArticleTitle ELSE NA,
   pub_date |-> IF doc.Year # Absent THEN doc.Year ELSE UnknownDate,
   authors |-> [i \in 1..Len(doc.Authors) |-> parse_author(doc.Authors[i])],
   affiliations |->
     [i \in 1..Len(doc.Authors) |-> parse_author(doc.Authors[i]).affiliation]]

ReturnedNone == [kind |-> "return_none", exc |-> "none", value |-> <<>>]

fetch_paper_details(resp) ==
  IF resp.exc # "none" THEN Raised(resp.exc)
  ELSE IF resp.status # HTTP_OK THEN ReturnedNone
  ELSE IF ~ resp.wellformed THEN Raised("ParseError")
  ELSE Returned(parse_document(resp.doc))

\* ------------------------------------------------------------ resolution
\* fetch_paper_ids on one response of the search endpoint.  A response is
\* [kind, exc, status, body, has_result, idlist]; the status is not looked at.
fetch_paper_ids(resp) ==
  IF resp.exc # "none" THEN Raised(resp.exc)
  ELSE IF resp.body = "not_json" THEN Raised("JSONDecodeError")
  ELSE IF resp.body = "json_list" THEN Raised("AttributeError")
  ELSE IF resp.has_result THEN Returned(resp.idlist)
  ELSE Returned(<<>>)

\* ------------------------------------------------------------ the report
DataFrame(rows, columns) == [columns |-> columns, rows |-> rows]
EmptyDataFrame == DataFrame(<<>>, <<>>)
df_empty(df) == df.rows = <<>> \/ df.columns = <<>>

names_of(authors) == [i \in 1..Len(authors) |-> authors[i].name]
affiliations_of(authors) == [i \in 1..Len(authors) |-> authors[i].affiliation]

make_row(pubmed_id, title, pub_date, non_academic) ==
  [PubmedID |-> pubmed_id,
   Title |-> title,
   PublicationDate |-> pub_date,
   Authors |-> str_join(CommaSpace, names_of(non_academic)),
   Affiliations |-> str_join(CommaSpace, affiliations_of(non_academic)),
   Email |-> NotAvailable]

\* the variant that puts the newest row first
append_row_front(rows, row) == <<row>> \o rows

append_row(rows, row) == Append(rows, row)

\* lines 124-145: the part of the loop body that follows a fetched record.
\* [kind, exc, papers, non_academic]; kind "raise" leaves the loop.
classify_record(rows, pubmed_id, data) ==
  LET n == identify_non_academic_authors(data.authors) IN
    IF n.kind = "raise"
    THEN [kind |-> "raise", exc |-> n.exc, papers |-> rows, non_academic |-> <<>>]
    ELSE IF n.value = <<>>
    THEN [kind |-> "continue", exc |-> "none", papers |-> rows, non_academic |-> <<>>]
    ELSE [kind |-> "continue", exc |-> "none",
          papers |-> append_row(rows, make_row(pubmed_id, data.title, data.pub_date, n.value)),
          non_academic |-> n.value]

\* lines 120-145: one pass of the loop on the response to its request
loop_body(rows, pubmed_id, resp) ==
  LET d == fetch_paper_details(resp) IN
    IF d.kind = "raise"
    THEN [kind |-> "raise", exc |-> d.exc, papers |-> rows, non_academic |-> <<>>]
    ELSE IF d.kind = "return_none"
    THEN [kind |-> "continue", exc |-> "none", papers |-> rows, non_academic |-> <<>>]
    ELSE classify_record(rows, pubmed_id, d.value)

\* the variant whose second clause lets the exception through
except_handler_requests_only(exc) ==
  IF exc \in {"ConnectionError", "JSONDecodeError"}
  THEN Returned(EmptyDataFrame)
  ELSE Raised(exc)

\* lines 158-164: both except clauses return an empty DataFrame
except_handler(exc) == Returned(EmptyDataFrame)

\* cli.py fetch, lines 27-47, on what get_research_papers gave
cli_report(outcome) ==
  IF outcome.kind = "raise" THEN "traceback"
  ELSE IF df_empty(outcome.value) THEN "No results found."
  ELSE "table"

\* the variant that asks for the first identifier again
detail_request_first(ids, k) == [op |-> "efetch", id |-> ids[1], timeout |-> "none"]

\* lines 39-46: the request of the k-th identifier; requests.get is given no timeout
detail_request(ids, k) == [op |-> "efetch", id |-> ids[k], timeout |-> "none"]

\* lines 25-33
search_request == [op |-> "esearch", id |-> "", timeout |-> "none"]

\* ------------------------------------------------------------ sample inputs
IdSet == {"1", "2"}

\* the sequences over S of length at most n
BoundedSeq(S, n) == UNION {[1..k -> S] : k \in 0..n}

NoResponse ==
  [kind |-> "nothing", exc |-> "none", status |-> 0, body |-> "", has_result |-> FALSE,
   idlist |-> <<>>, wellformed |-> FALSE, doc |-> <<>>]

SearchResponse(exc, status, body, has_result, idlist) ==
  [kind |-> "search", exc |-> exc, status |-> status, body |-> body,
   has_result |-> has_result, idlist |-> idlist, wellformed |-> FALSE, doc |-> <<>>]

\* what the search endpoint may answer: the transport fails, the body is not
\* JSON, the JSON is not an object, the object has no esearchresult, or it
\* holds any identifier list, under a success or an error status
SearchResponses ==
  {SearchResponse("ConnectionError", 0, "", FALSE, <<>>)}
  \cup {SearchResponse("none", st, b, FALSE, <<>>) :
          st \in {200, 500}, b \in {"not_json", "json_list", "json_dict"}}
  \cup {SearchResponse("none", st, "json_dict", TRUE, ids) :
          st \in {200, 500}, ids \in BoundedSeq(IdSet, MaxIds)}

Text_T == <<"T">>
Text_2020 == <<"2","0","2","0">>
Text_Lee == <<"L","e","e">>
Text_Kim == <<"K","i","m">>
Text_Roy == <<"R","o","y">>
Text_A == <<"A">>
Text_B == <<"B">>
Aff_AcmeInc == <<"A","c","m","e"," ","I","n","c">>
Aff_CityCollege == <<"C","i","t","y"," ","C","o","l","l","e","g","e">>
Aff_HospitalGmbH == <<"H","o","s","p","i","t","a","l"," ","G","m","b","H">>
Aff_acme_inc == <<"a","c","m","e"," ","i","n","c">>
Aff_SCHOOL == <<"S","C","H","O","O","L">>
Aff_Incyte == <<"I","n","c","y","t","e">>
Aff_NIH == <<"N","I","H">>

AuthorElement(last, fore, aff) == [LastName |-> last, ForeName |-> fore, Affiliation |-> aff]
Document(title, year, authors) == [ArticleTitle |-> title, Year |-> year, Authors |-> authors]

El_LeeAcme == AuthorElement(Text_Lee, Text_A, Aff_AcmeInc)
El_KimCollege == AuthorElement(Text_Kim, Text_B, Aff_CityCollege)
El_RoyHospitalGmbH == AuthorElement(Text_Roy, Absent, Aff_HospitalGmbH)
El_KimNoAffiliation == AuthorElement(Text_Kim, Text_B, Absent)
El_LeeLowerInc == AuthorElement(Text_Lee, Text_A, Aff_acme_inc)
El_LeeEmptyAffiliation == AuthorElement(Text_Lee, Text_A, PyNone)
El_EmptyLastAcme == AuthorElement(PyNone, Text_A, Aff_AcmeInc)

\* the documents the detail endpoint may answer with
Documents ==
  { Document(Text_T, Text_2020, <<El_KimCollege, El_LeeAcme>>),
    Document(Text_T, Text_2020, <<El_KimCollege, El_KimNoAffiliation>>),
    Document(Absent, Absent, <<El_RoyHospitalGmbH, El_LeeAcme>>),
    Document(Text_T, Text_2020, <<>>),
    Document(Text_T, Text_2020, <<El_LeeAcme, El_LeeEmptyAffiliation>>),
    Document(PyNone, PyNone, <<El_EmptyLastAcme, El_LeeLowerInc>>) }

DetailResponse(exc, status, wellformed, doc) ==
  [kind |-> "detail", exc |-> exc, status |-> status, body |-> "", has_result |-> FALSE,
   idlist |-> <<>>, wellformed |-> wellformed, doc |-> doc]

\* what the detail endpoint may answer: the transport fails, an error status,
\* a body that is not XML, or one of the documents
DetailResponses ==
  {DetailResponse("ConnectionError", 0, FALSE, <<>>),
   DetailResponse("none", 404, FALSE, <<>>),
   DetailResponse("none", 200, FALSE, <<>>)}
  \cup {DetailResponse("none", 200, TRUE, d) : d \in Documents}

\* records for the classification step on its own: every field a string
SampleAffiliations ==
  {Aff_AcmeInc, Aff_CityCollege, Aff_HospitalGmbH, Aff_acme_inc, Aff_SCHOOL,
   Aff_Incyte, Aff_NIH, NA}
SampleAuthors ==
  [name : {Text_A \o Space \o Text_Lee, UnknownAuthor}, affiliation : SampleAffiliations]
SampleRecords ==
  {[title |-> Text_T, pub_date |-> Text_2020, authors |-> a,
    affiliations |-> affiliations_of(a)] : a \in BoundedSeq(SampleAuthors, MaxAuthors)}

NoRecord == [title |-> <<>>, pub_date |-> <<>>, authors |-> <<>>, affiliations |-> <<>>]
NoOutcome == [kind |-> "running", exc |-> "none", value |-> <<>>]

\* ------------------------------------------------------------ state
VARIABLES
  pc,                   \* where the command is: start, wait_search, wait_detail, exit
  max_results,          \* the argument of the command
  requests,             \* the requests issued so far, in order
  completed,            \* how many of them have been answered and consumed
  response,             \* the answer waiting to be consumed, or NoResponse
  pubmed_ids,           \* what fetch_paper_ids returned
  idx,                  \* how many identifiers the loop is done with
  papers,               \* the accumulated rows
  paper_data,           \* the record of the pass in progress
  non_academic_authors, \* its commercial authors
  fetched,              \* the detail responses consumed so far, in order
  resolve_exc,          \* the exception fetch_paper_ids raised, or "none"
  error,                \* the exception that ended the run, or "none"
  ret,                  \* what get_research_papers gave its caller
  cli_out               \* what the command then printed

vars ==
  <<pc, max_results, requests, completed, response, pubmed_ids, idx, papers,
    paper_data, non_academic_authors, fetched, resolve_exc, error, ret, cli_out>>

Init ==
  /\ pc = "start"
  /\ max_results \in 0..MaxResults
  /\ requests = <<>>
  /\ completed = 0
  /\ response = NoResponse
  /\ pubmed_ids = <<>>
  /\ idx = 0
  /\ papers = <<>>
  /\ paper_data = NoRecord
  /\ non_academic_authors = <<>>
  /\ fetched = <<>>
  /\ resolve_exc = "none"
  /\ error = "none"
  /\ ret = NoOutcome
  /\ cli_out = "none"

\* get_research_papers returns or raises, and the command reports
Finish(outcome) ==
  /\ ret' = outcome
  /\ cli_out' = cli_report(outcome)
  /\ pc' = "exit"

\* cli.py line 27, fetch_papers.py lines 108-112 and 25-33: the command
\* calls get_research_papers, which sends the search request and blocks
Invoke ==
  /\ pc = "start"
  /\ requests' = Append(requests, search_request)
  /\ pc' = "wait_search"
  /\ UNCHANGED <<max_results, completed, response, pubmed_ids, idx, papers, paper_data,
                 non_academic_authors, fetched, resolve_exc, error, ret, cli_out>>

\* the service answers the search request
ServiceAnswersSearch ==
  /\ pc = "wait_search"
  /\ response.kind = "nothing"
  /\ \E r \in SearchResponses : response' = r
  /\ UNCHANGED <<pc, max_results, requests, completed, pubmed_ids, idx, papers, paper_data,
                 non_academic_authors, fetched, resolve_exc, error, ret, cli_out>>

\* lines 33-35 and 112-120: requests.get returns or raises; on identifiers,
\* the loop starts and sends the first detail request
ReceiveSearch ==
  /\ pc = "wait_search"
  /\ response.kind = "search"
  /\ completed' = completed + 1
  /\ response' = NoResponse
  /\ LET r == fetch_paper_ids(response) IN
       IF r.kind = "raise"
       THEN /\ resolve_exc' = r.exc
            /\ error' = r.exc
            /\ Finish(except_handler(r.exc))
            /\ UNCHANGED <<pubmed_ids, requests>>
       ELSE /\ pubmed_ids' = r.value
            /\ UNCHANGED <<resolve_exc, error>>
            /\ IF r.value = <<>>
               THEN /\ Finish(Returned(EmptyDataFrame))
                    /\ UNCHANGED requests
               ELSE /\ requests' = Append(requests, detail_request(r.value, 1))
                    /\ pc' = "wait_detail"
                    /\ UNCHANGED <<ret, cli_out>>
  /\ UNCHANGED <<max_results, idx, papers, paper_data, non_academic_authors, fetched>>

\* the service answers the detail request
ServiceAnswersDetail ==
  /\ pc = "wait_detail"
  /\ response.kind = "nothing"
  /\ \E r \in DetailResponses : response' = r
  /\ UNCHANGED <<pc, max_results, requests, completed, pubmed_ids, idx, papers, paper_data,
                 non_academic_authors, fetched, resolve_exc, error, ret, cli_out>>

\* lines 46-82 and 119-156: requests.get returns or raises, the pass of the
\* loop runs; then the next detail request is sent, or the loop is over and
\* the DataFrame is built and returned
ReceiveDetail ==
  /\ pc = "wait_detail"
  /\ response.kind = "detail"
  /\ completed' = completed + 1
  /\ response' = NoResponse
  /\ fetched' = Append(fetched, response)
  /\ idx' = idx + 1
  /\ LET d == fetch_paper_details(response)
         b == loop_body(papers, pubmed_ids[idx + 1], response)
     IN
       /\ paper_data' = IF d.kind = "return" THEN d.value ELSE paper_data
       /\ non_academic_authors' = b.non_academic
       /\ papers' = b.papers
       /\ IF b.kind = "raise"
          THEN /\ error' = b.exc
               /\ Finish(except_handler(b.exc))
               /\ UNCHANGED requests
          ELSE /\ UNCHANGED error
               /\ IF idx + 1 < Len(pubmed_ids)
                  THEN /\ requests' = Append(requests, detail_request(pubmed_ids, idx + 2))
                       /\ UNCHANGED <<pc, ret, cli_out>>
                  ELSE /\ Finish(Returned(DataFrame(b.papers, REPORT_COLUMNS)))
                       /\ UNCHANGED requests
  /\ UNCHANGED <<max_results, pubmed_ids, resolve_exc>>

Next ==
  \/ Invoke
  \/ ServiceAnswersSearch
  \/ ReceiveSearch
  \/ ServiceAnswersDetail
  \/ ReceiveDetail

Spec == Init /\ [][Next]_vars

\* the command's own steps are taken when they can be; nothing makes the
\* service answer
FairSpec ==
  Spec /\ WF_vars(Invoke) /\ WF_vars(ReceiveSearch) /\ WF_vars(ReceiveDetail)

\* ------------------------------------------------------------ the classification step on its own
InitClassify ==
  /\ pc = "classify"
  /\ max_results = 1
  /\ requests = <<>>
  /\ completed = 0
  /\ response = NoResponse
  /\ pubmed_ids = <<"1">>
  /\ idx = 0
  /\ papers = <<>>
  /\ paper_data \in SampleRecords
  /\ non_academic_authors = <<>>
  /\ fetched = <<>>
  /\ resolve_exc = "none"
  /\ error = "none"
  /\ ret = NoOutcome
  /\ cli_out = "none"

\* lines 124-145 on one record
ClassifyRecord ==
  /\ pc = "classify"
  /\ LET c == classify_record(papers, pubmed_ids[1], paper_data) IN
       /\ papers' = c.papers
       /\ non_academic_authors' = c.non_academic
  /\ pc' = "classified"
  /\ UNCHANGED <<max_results, requests, completed, response, pubmed_ids, idx, paper_data,
                 fetched, resolve_exc, error, ret, cli_out>>

NextClassify == ClassifyRecord

SpecClassify == InitClassify /\ [][NextClassify]_vars

\* ------------------------------------------------------------ vocabulary of the properties
\* s holds one of the keywords at some position
HasKeyword(s, keywords) ==
  \E k \in 1..Len(keywords) : \E i \in 1..Len(s) :
    /\ i + Len(keywords[k]) - 1 <= Len(s)
    /\ \A j \in 1..Len(keywords[k]) : s[i + j - 1] = keywords[k][j]

ContainsCommercialKeyword(affiliation) == HasKeyword(affiliation, COMPANY_KEYWORDS)
ContainsAcademicKeyword(affiliation) == HasKeyword(lower(affiliation), ACADEMIC_KEYWORDS)

CommercialAuthors(authors) ==
  SelectSeq(authors, LAMBDA a : ContainsCommercialKeyword(a.affiliation))

\* a is b with some entries left out
IsSubsequence(a, b) ==
  \E f \in [1..Len(a) -> 1..Len(b)] :
    /\ \A i \in 1..Len(a) : b[f[i]] = a[i]
    /\ \A i, j \in 1..Len(a) : i < j => f[i] < f[j]

Occurrences(x, seq) == Cardinality({i \in 1..Len(seq) : seq[i] = x})

RowIds(rows) == [i \in 1..Len(rows) |-> rows[i].PubmedID]
DetailIds == [i \in 1..(Len(requests) - 1) |-> requests[i + 1].id]

\* a detail response that gives no usable record: the transport failed, an
\* error status, an unparsable body, or an affiliation element without text
DetailFailed(resp) ==
  \/ resp.exc # "none"
  \/ resp.status # 200
  \/ ~ resp.wellformed
  \/ \E i \in 1..Len(resp.doc.Authors) : resp.doc.Authors[i].Affiliation = PyNone

\* the rows the filter rule asks for, given the responses consumed
RECURSIVE ExpectedRows(_, _, _)
ExpectedRows(ids, resps, k) ==
  IF k > Len(resps) THEN <<>>
  ELSE IF DetailFailed(resps[k]) THEN ExpectedRows(ids, resps, k + 1)
  ELSE LET rec == parse_document(resps[k].doc)
           com == CommercialAuthors(rec.authors)
       IN IF com = <<>> THEN ExpectedRows(ids, resps, k + 1)
          ELSE <<make_row(ids[k], rec.title, rec.pub_date, com)>>
               \o ExpectedRows(ids, resps, k + 1)

Unusable(field) == field = Absent \/ field = PyNone

\* the service did what the search endpoint documents: no more identifiers
\* than asked for, none of them twice
ServiceKeptContract ==
  /\ Len(pubmed_ids) <= max_results
  /\ \A i, j \in 1..Len(pubmed_ids) : i # j => pubmed_ids[i] # pubmed_ids[j]

\* ------------------------------------------------------------ properties

\* C1: in every run, the final report has a row for an identifier whose
\* detail fetch succeeded exactly when its record has a commercial author,
\* and the row lists exactly the commercial authors, in the record's order.
\* Stated for the runs in which the service kept its contract; the claim
\* speaks of every run.
FilterCorrectInReport ==
  (pc = "exit" /\ ServiceKeptContract) =>
    /\ ret.kind = "return"
    /\ ret.value.rows = ExpectedRows(pubmed_ids, fetched, 1)

\* C2: at every point of a run and in the final result, the PubmedID values
\* of the report are a subsequence of the resolver's identifier list, in its
\* order, and no identifier occurs more often than in that list.
ReportOrderIsResolverOrder ==
  /\ IsSubsequence(RowIds(papers), pubmed_ids)
  /\ \A id \in IdSet : Occurrences(id, RowIds(papers)) <= Occurrences(id, pubmed_ids)
  /\ (pc = "exit" /\ ret.kind = "return") =>
       /\ IsSubsequence(RowIds(ret.value.rows), pubmed_ids)
       /\ \A id \in IdSet :
            Occurrences(id, RowIds(ret.value.rows)) <= Occurrences(id, pubmed_ids)

\* C2 witness: a finished run whose report holds two rows of different identifiers
TwoRowsReported ==
  /\ pc = "exit"
  /\ ret.kind = "return"
  /\ Len(ret.value.rows) = 2
  /\ ret.value.rows[1].PubmedID # ret.value.rows[2].PubmedID

\* C3: when the detail fetch of some identifier fails, the run still goes
\* through every identifier and the final report holds a row for every other
\* identifier that fetched successfully and has a commercial author.
\* Stated for the runs in which the service kept its contract.
FailureIsolation ==
  (pc = "exit" /\ resolve_exc = "none" /\ ServiceKeptContract
     /\ \E k \in 1..Len(fetched) : DetailFailed(fetched[k])) =>
    /\ Len(fetched) = Len(pubmed_ids)
    /\ \A k \in 1..Len(fetched) :
         (/\ ~ DetailFailed(fetched[k])
          /\ CommercialAuthors(parse_document(fetched[k].doc).authors) # <<>>)
         => \E j \in 1..Len(ret.value.rows) : ret.value.rows[j].PubmedID = pubmed_ids[k]

\* what a run whose resolution succeeded and that has no qualifying paper
\* gives its caller, and what the command then prints
EmptySuccessOutcomes ==
  {Returned(EmptyDataFrame), Returned(DataFrame(<<>>, REPORT_COLUMNS))}
EmptySuccessReport == "No results found."

\* a run whose resolution succeeded, that no exception ended and that has
\* no qualifying paper ends as EmptySuccessOutcomes and EmptySuccessReport say
EmptySuccessIsAsStated ==
  (pc = "exit" /\ resolve_exc = "none" /\ error = "none" /\ papers = <<>>) =>
    /\ ret \in EmptySuccessOutcomes
    /\ cli_out = EmptySuccessReport

\* C4: a failed resolution gives the caller a value, and makes the command
\* report something, that differs from a successful run without qualifying papers.
ResolutionFailureDistinguishable ==
  (pc = "exit" /\ resolve_exc # "none") =>
    /\ ret \notin EmptySuccessOutcomes
    /\ cli_out # EmptySuccessReport

\* C5: an author is in the commercial subsequence exactly when the
\* affiliation contains a commercial keyword, also when it contains an
\* academic keyword as well; authors with only academic keywords or with
\* neither ("N/A" included) are in no report row.
CommercialKeywordDecides ==
  pc = "classified" =>
    LET com == CommercialAuthors(paper_data.authors) IN
      /\ non_academic_authors = com
      /\ \A i \in 1..Len(paper_data.authors) :
           (/\ ContainsCommercialKeyword(paper_data.authors[i].affiliation)
            /\ ContainsAcademicKeyword(paper_data.authors[i].affiliation))
           => \E j \in 1..Len(non_academic_authors) :
                non_academic_authors[j] = paper_data.authors[i]
      /\ \A i \in 1..Len(paper_data.authors) :
           ~ ContainsCommercialKeyword(paper_data.authors[i].affiliation)
           => \A j \in 1..Len(non_academic_authors) :
                non_academic_authors[j].affiliation # paper_data.authors[i].affiliation
      /\ papers = IF com = <<>> THEN <<>>
                  ELSE <<[PubmedID |-> pubmed_ids[1],
                          Title |-> paper_data.title,
                          PublicationDate |-> paper_data.pub_date,
                          Authors |-> str_join(CommaSpace, names_of(com)),
                          Affiliations |-> str_join(CommaSpace, affiliations_of(com)),
                          Email |-> NotAvailable]>>

\* C5 witness: a classified record with an author matching both keyword sets
\* and an author matching only the academic one, and a row for it
BothAndAcademicClassified ==
  /\ pc = "classified"
  /\ Len(papers) = 1
  /\ \E i \in 1..Len(paper_data.authors) :
       /\ ContainsCommercialKeyword(paper_data.authors[i].affiliation)
       /\ ContainsAcademicKeyword(paper_data.authors[i].affiliation)
  /\ \E i \in 1..Len(paper_data.authors) :
       /\ ~ ContainsCommercialKeyword(paper_data.authors[i].affiliation)
       /\ ContainsAcademicKeyword(paper_data.authors[i].affiliation)

\* C6: whatever the service answers, the identifier list is no longer than
\* max_results, and so are the report and the number of detail requests.
IdentifierCountBounded ==
  (pc \in {"wait_detail", "exit"} /\ resolve_exc = "none") =>
    /\ Len(pubmed_ids) <= max_results
    /\ Len(papers) <= max_results
    /\ Len(requests) - 1 <= max_results

\* C7: when resolution yields no identifier or fails, get_research_papers
\* returns an empty report, raises nothing, and no detail request was issued.
EmptyResolutionGivesEmptyReport ==
  (pc = "exit" /\ (resolve_exc # "none" \/ pubmed_ids = <<>>)) =>
    /\ ret.kind = "return"
    /\ ret.value.rows = <<>>
    /\ df_empty(ret.value)
    /\ \A i \in 1..Len(requests) : requests[i].op # "efetch"

\* C7 witness: a finished run whose resolution raised something that is not
\* a requests exception
ResolutionRaised ==
  /\ pc = "exit"
  /\ resolve_exc = "AttributeError"

\* C8: every run terminates with a report, also when the service never
\* answers.  Stated for the runs in which the service, when it answers the
\* search, keeps its contract.
RunTerminates == <>(pc = "exit" \/ ~ ServiceKeptContract)

\* C9: for every detail response received and parsed, an absent or
\* text-less field becomes its sentinel, the record has one author per
\* author element in order, and the run is not ended by it.  Stated for the
\* runs in which the service kept its contract.
SentinelsForUnusableFields ==
  (fetched # <<>> /\ ServiceKeptContract /\ fetched[Len(fetched)].exc = "none"
     /\ fetched[Len(fetched)].status = 200 /\ fetched[Len(fetched)].wellformed) =>
    LET doc == fetched[Len(fetched)].doc IN
      /\ error = "none"
      /\ paper_data.title = IF Unusable(doc.ArticleTitle) THEN NA ELSE doc.ArticleTitle
      /\ paper_data.pub_date = IF Unusable(doc.Year) THEN UnknownDate ELSE doc.Year
      /\ Len(paper_data.authors) = Len(doc.Authors)
      /\ \A i \in 1..Len(doc.Authors) :
           /\ paper_data.authors[i].name =
                IF Unusable(doc.Authors[i].LastName) \/ Unusable(doc.Authors[i].ForeName)
                THEN UnknownAuthor
                ELSE doc.Authors[i].ForeName \o Space \o doc.Authors[i].LastName
           /\ paper_data.authors[i].affiliation =
                IF Unusable(doc.Authors[i].Affiliation) THEN NA
                ELSE doc.Authors[i].Affiliation

\* the parts of C10 that do not speak of repeated identifiers: at most one
\* request is unanswered, the first request is the search, no detail request
\* is issued before the search is answered, and the detail requests are the
\* identifiers of the resolver's list, one per entry, in its order
OneAtATimeInResolverOrder ==
  /\ Len(requests) - completed \in {0, 1}
  /\ pc # "start" => (requests # <<>> /\ requests[1].op = "esearch")
  /\ Len(requests) >= 2 => completed >= 1
  /\ \A i \in 2..Len(requests) : requests[i].op = "efetch"
  /\ Len(DetailIds) <= Len(pubmed_ids)
  /\ \A k \in 1..Len(DetailIds) : DetailIds[k] = pubmed_ids[k]

\* C10 as stated: requests go one at a time, the search first, then the
\* identifiers in resolver order, and no identifier is requested twice.
SequentialNoIdentifierTwice ==
  /\ OneAtATimeInResolverOrder
  /\ \A i, j \in 1..Len(DetailIds) : i # j => DetailIds[i] # DetailIds[j]

\* C10 amended: requests go one at a time, the search first, then the
\* identifiers in resolver order, and no identifier is requested more often
\* than it occurs in the resolver's list.
SequentialOncePerListEntry ==
  /\ OneAtATimeInResolverOrder
  /\ \A id \in IdSet : Occurrences(id, DetailIds) <= Occurrences(id, pubmed_ids)

\* C10 witness: a finished run in which the resolver's list named one
\* identifier twice and both entries were requested
RepeatedIdentifierRequested ==
  /\ pc = "exit"
  /\ Len(DetailIds) = 2
  /\ DetailIds[1] = DetailIds[2]

====
